---- MODULE Spec2Model ----
(***************************************************************************)
(* The viewport-driven playback controller of the video feed               *)
(* (apps/web/components/VideoFeed.tsx): React state, the per-slide media   *)
(* elements, the IntersectionObserver that feeds handleIntersection, the   *)
(* click / keyboard handlers and the media events.                         *)
(*                                                                         *)
(* One action is one task of the browser's event loop: the handler, the    *)
(* React render its setState calls cause, and the effects that render      *)
(* re-runs.  What the browser delivers later (observer notifications,      *)
(* play-promise settlements, media events) is a separate action.           *)
(***************************************************************************)
EXTENDS Integers, Sequences, FiniteSets

\* ------------------------------------------------------------------ bounds
\* number of items of the feed
NumVideos == 3
\* scroll positions per slide height (5 gives visibility ratios 0, 20, .., 100 %)
StepsPerSlide == 5
\* length of every clip, in playback ticks
MaxTime == 1
\* how many items of the list may lack an adaptive-stream URL
MaxNoHls == 1
\* how many play() promises of handleVideoClick may be unsettled at once
MaxPending == 1
\* longest media duration the seek keys are tried on, in seconds
MaxDuration == 10

\* --------------------------------------------------------------- constants
\* activation threshold of handleIntersection, in percent (intersectionRatio > 0.6)
ActivationRatio == 60
\* step of the arrowleft / arrowright keys, in seconds
SecondsPerJump == 5

None == "none"
AllIds == <<"v0", "v1", "v2", "v3", "v4", "v5">>
Idx == 0 .. (NumVideos - 1)
Ids == {AllIds[i + 1] : i \in Idx}
MaxTop == (NumVideos - 1) * StepsPerSlide
\* thresholds of the IntersectionObserver, in percent
Thresholds == {40, 60, 80}

VARIABLES
    videos,          \* the videos prop: index -> [id, hls_url (present or not)]
    loaded,          \* useState loaded: id -> BOOLEAN
    userPaused,      \* useState userPaused: id -> BOOLEAN (FALSE: false or absent)
    lastActiveIdRef, \* useRef lastActiveIdRef
    activeVideoId,   \* useState activeVideoId
    isMuted,         \* useState isMuted
    elPaused,        \* media element i: paused
    elTime,          \* media element i: currentTime
    pendingThen,     \* ids with an unsettled play() promise from handleVideoClick
    observerFresh,   \* the observer was just created and has not reported yet
    activeVideo,     \* the element handleKeyDown seeks: currentSrc, currentTime
                     \* and duration in seconds, whether its metadata has
                     \* loaded (duration is NaN until then), paused
    slide,           \* the refs and state a slide of the touch variant adds:
                     \* touchStartRef, isScrrubbingRef, pending timeouts,
                     \* videoProgress
    page,            \* the server component Page: the listing it fetched and
                     \* the videos it hands to VideoFeed once it has rendered
    playNoSrc,       \* history: play() was invoked on an element without currentSrc
    hasInteracted,   \* history: a click or space toggle has been handled
    lastEvent        \* history: the task that ran last

vars == <<videos, loaded, userPaused, lastActiveIdRef, activeVideoId, isMuted,
          elPaused, elTime, pendingThen, observerFresh, activeVideo, slide,
          page, playNoSrc, hasInteracted,
          lastEvent>>

\* the variables of the playback model; the seek keys leave them alone
feedVars == <<videos, loaded, userPaused, lastActiveIdRef, activeVideoId,
              isMuted, elPaused, elTime, pendingThen, observerFresh, slide,
              page, playNoSrc, hasInteracted>>

\* ------------------------------------------------------------------ helpers
Abs(x) == IF x < 0 THEN -x ELSE x

Max(S) == CHOOSE x \in S : \A y \in S : y <= x

\* The ids of the list are distinct (getVideosFromListing drops duplicates) and
\* the list never changes: item i has id AllIds[i + 1].
IndexOfId == [id \in Ids |-> CHOOSE i \in Idx : AllIds[i + 1] = id]

\* videos.findIndex(v => v.id === id)
findIndex(id) == IF id \in Ids THEN IndexOfId[id] ELSE -1

\* -------------------------------------------------------------- environment
\* Every section is one viewport high (h-screen) and the observer's root is the
\* viewport: with the viewport scrolled to offset top, section i is
\* Distance(i, top) steps away from filling it.
Distance(i, top) == Abs(top - i * StepsPerSlide)

\* intersectionRatio of section i, in percent
Ratio(i, top) ==
    IF Distance(i, top) >= StepsPerSlide
    THEN 0
    ELSE ((StepsPerSlide - Distance(i, top)) * 100) \div StepsPerSlide

\* isIntersecting: the section touches the viewport (edge-adjacent included)
Intersecting(i, top) == Distance(i, top) <= StepsPerSlide

\* index of the first observer threshold greater than the ratio
ThresholdIndex(i, top) == Cardinality({t \in Thresholds : t <= Ratio(i, top)})

\* the observer queues an entry for a target whose threshold index or
\* isIntersecting differs from the ones of its last report, made at scroll
\* offset prev; a new observer (prev = -1) reports every target
Changed(i, top, prev) ==
    \/ prev = -1
    \/ ThresholdIndex(i, top) # ThresholdIndex(i, prev)
    \/ Intersecting(i, top) # Intersecting(i, prev)

\* data-index={index}: the attribute of section i, a decimal string
IndexAttrs == <<"0", "1", "2", "3", "4", "5">>
datasetIndex(i) == IndexAttrs[i + 1]

\* dataset.index of an element without the attribute
Undefined == "undefined"

\* an entry of section i: its target's position and index attribute
Entry(i, top) ==
    [index |-> i,
     indexAttr |-> datasetIndex(i),
     isIntersecting |-> Intersecting(i, top),
     intersectionRatio |-> Ratio(i, top)]

\* the batch handed to the callback at offset top: the changed targets, in
\* observe() order
Entries(top, prev) ==
    LET all == [k \in 1 .. NumVideos |-> Entry(k - 1, top)]
        changed(e) == Changed(e.index, top, prev)
    IN  SelectSeq(all, changed)

\* The batches the observer can deliver.  The user scrolls freely between two
\* tasks, so a report can be made at any offset; an observer that has reported
\* made its last report at any offset, a new one reports every target.
Batches ==
    [fresh \in BOOLEAN |->
        {Entries(top, prev) :
            top \in 0 .. MaxTop,
            prev \in IF fresh THEN {-1} ELSE 0 .. MaxTop} \ {<<>>}]

\* ------------------------------------------------------------- state record
\* The part of the state the handlers write, as one record the handlers
\* transform before it is committed.  resub records that a dependency of the
\* observer effect ([videos, userPaused, isMuted, activeVideoId]) got a new value,
\* played the id of the element play() was invoked on.
Cur ==
    [loaded |-> loaded, userPaused |-> userPaused,
     lastActiveIdRef |-> lastActiveIdRef, activeVideoId |-> activeVideoId,
     isMuted |-> isMuted, elPaused |-> elPaused, elTime |-> elTime,
     pendingThen |-> pendingThen, playNoSrc |-> playNoSrc, resub |-> FALSE,
     played |-> None]

\* ------------------------------------------------------------------- render
\* render: isActive / isAdjacent / videoSrc of slide i in state s
isActive(s, i) == s.activeVideoId = videos[i].id

renderActiveIndex(s) ==
    IF s.activeVideoId # None THEN findIndex(s.activeVideoId) ELSE -1

isAdjacent(s, i) ==
    /\ renderActiveIndex(s) >= 0
    /\ (i = renderActiveIndex(s) - 1 \/ i = renderActiveIndex(s) + 1)

\* a videoSrc that is defined for an item without an hls_url as well
videoSrcAnyUrl(s, i) ==
    /\ (isActive(s, i) \/ isAdjacent(s, i))
    /\ s.loaded[videos[i].id]

\* a videoSrc that every loaded slide keeps
videoSrcWhenLoaded(s, i) ==
    /\ s.loaded[videos[i].id]
    /\ videos[i].hls_url

\* videoSrc is defined: the slide's video element gets a src attribute
videoSrc(s, i) ==
    /\ (isActive(s, i) \/ isAdjacent(s, i))
    /\ s.loaded[videos[i].id]
    /\ videos[i].hls_url

\* preload = "auto"
shouldPreload(s, i) == isAdjacent(s, i) \/ isActive(s, i)

\* el.currentSrc is non-empty.  The element's source is taken from the src
\* attribute of the last render: an element holds a resource while it is
\* rendered with a src.
currentSrc(i) == videoSrc(Cur, i)

\* el.pause()
Pause(s, i) == [s EXCEPT !.elPaused[i] = TRUE]

\* el.play(): ok is whether the browser allows playback to start.  A refused
\* play() rejects its promise and leaves the element paused.  Playing from the
\* end of the media seeks to the start.
Play(s, i, ok) ==
    LET noSrc == s.playNoSrc \/ ~currentSrc(i)
    IN  IF ok
        THEN [s EXCEPT !.elPaused[i] = FALSE,
                       !.elTime[i] = IF s.elPaused[i] /\ s.elTime[i] = MaxTime
                                     THEN 0 ELSE s.elTime[i],
                       !.playNoSrc = noSrc,
                       !.played = videos[i].id]
        ELSE [s EXCEPT !.playNoSrc = noSrc, !.played = videos[i].id]

\* what lastEvent records of a task: the handler, the id it was about, the id
\* of the element it invoked play() on and, for a visibility batch, whether the
\* selected id was newly active and whether its userPaused flag was set
Ev(op, id, s) ==
    [op |-> op, id |-> id, played |-> s.played, isNew |-> FALSE,
     wasPaused |-> FALSE]

\* React commits state s and re-renders: the video elements get their new src
\* attributes.  Setting a src attribute runs the element's load algorithm,
\* which leaves it paused at position zero.
Commit(s, ev) ==
    LET newly(i) == videoSrc(s, i) /\ ~videoSrc(Cur, i)
    IN  /\ loaded' = s.loaded
        /\ userPaused' = s.userPaused
        /\ lastActiveIdRef' = s.lastActiveIdRef
        /\ activeVideoId' = s.activeVideoId
        /\ isMuted' = s.isMuted
        /\ pendingThen' = s.pendingThen
        /\ playNoSrc' = s.playNoSrc
        /\ elPaused' = [i \in Idx |-> IF newly(i) THEN TRUE ELSE s.elPaused[i]]
        /\ elTime' = [i \in Idx |-> IF newly(i) THEN 0 ELSE s.elTime[i]]
        /\ hasInteracted' = (hasInteracted \/ ev.op \in {"click", "space"})
        /\ lastEvent' = ev
        /\ UNCHANGED <<videos, activeVideo, slide, page>>

\* a handleVideoClick whose first-interaction branch flips the mute flag on
\* every click
handleVideoClickToggle(s, id, index, ok) ==
    LET s1 == [s EXCEPT !.isMuted = ~@, !.resub = TRUE]
    IN  IF s1.elPaused[index]
        THEN IF currentSrc(index)
             THEN LET s2 == Play(s1, index, ok)
                  IN  IF ok THEN [s2 EXCEPT !.pendingThen = @ \cup {id}] ELSE s2
             ELSE s1
        ELSE [Pause(s1, index) EXCEPT !.userPaused[id] = TRUE]

\* a handleVideoClick whose pause branch forgets setUserPaused
handleVideoClickNoRecord(s, id, index, ok) ==
    IF s.isMuted
    THEN LET s1 == [s EXCEPT !.isMuted = FALSE, !.resub = TRUE]
         IN  IF s1.elPaused[index] /\ currentSrc(index)
             THEN LET s2 == Play(s1, index, ok)
                  IN  IF ok THEN [s2 EXCEPT !.pendingThen = @ \cup {id}] ELSE s2
             ELSE s1
    ELSE IF s.elPaused[index]
         THEN IF currentSrc(index)
              THEN LET s2 == Play(s, index, ok)
                   IN  IF ok THEN [s2 EXCEPT !.pendingThen = @ \cup {id}] ELSE s2
              ELSE s
         ELSE Pause(s, index)

\* ------------------------------------------------------- handleVideoClick
\* handleVideoClick(id, index).  The element of a rendered slide is always
\* mounted, so the !el early return is never taken.
handleVideoClick(s, id, index, ok) ==
    IF s.isMuted
    THEN \* first interaction: unmute globally, then play
         LET s1 == [s EXCEPT !.isMuted = FALSE, !.resub = TRUE]
         IN  IF s1.elPaused[index] /\ currentSrc(index)
             THEN LET s2 == Play(s1, index, ok)
                  IN  IF ok THEN [s2 EXCEPT !.pendingThen = @ \cup {id}] ELSE s2
             ELSE s1
    ELSE IF s.elPaused[index]
         THEN IF currentSrc(index)
              THEN LET s2 == Play(s, index, ok)
                   IN  IF ok THEN [s2 EXCEPT !.pendingThen = @ \cup {id}] ELSE s2
              ELSE s
         ELSE [Pause(s, index) EXCEPT !.userPaused[id] = TRUE, !.resub = TRUE]

\* ------------------------------------------------------ handleIntersection
\* the entries.forEach loop: the last entry whose section is more than 60 %
\* visible names the active id
\* the strings that convert to a number, with their numbers: the decimal
\* strings, and the empty string, which converts to 0
Numbers ==
    [a \in {IndexAttrs[i] : i \in 1 .. Len(IndexAttrs)} \cup {"-1", ""} |->
        IF a = "-1" THEN -1
        ELSE IF a = "" THEN 0
        ELSE (CHOOSE i \in 1 .. Len(IndexAttrs) : IndexAttrs[i] = a) - 1]

\* a conversion that reads what is not a number as 0
NumberOrZero(indexAttr) ==
    IF indexAttr \in DOMAIN Numbers THEN <<Numbers[indexAttr]>> ELSE <<0>>

\* Number(indexAttr): <<n>> for the number n, <<>> for NaN
Number(indexAttr) ==
    IF indexAttr \in DOMAIN Numbers THEN <<Numbers[indexAttr]>> ELSE <<>>

\* the id of videos[index] for an entry, None where the forEach callback
\* returns early; the video at position i has the id AllIds[i + 1]
entryVideo(e) ==
    IF e.indexAttr = Undefined
    THEN None
    ELSE LET index == Number(e.indexAttr)
         IN  IF index # <<>> /\ index[1] \in Idx
             THEN AllIds[index[1] + 1] ELSE None

Qualifies(e) ==
    /\ entryVideo(e) # None
    /\ e.isIntersecting
    /\ e.intersectionRatio > ActivationRatio

ActiveCandidate(entries) ==
    LET hits == {k \in 1 .. Len(entries) : Qualifies(entries[k])}
    IN  IF hits = {} THEN None ELSE entryVideo(entries[Max(hits)])

\* the active ids the batches the observer can deliver lead to
Candidates == [fresh \in BOOLEAN |-> {ActiveCandidate(e) : e \in Batches[fresh]}]

\* [activeIndex - 1, activeIndex, activeIndex + 1].filter(in bounds)
adjacentIndices(activeIndex) ==
    {activeIndex - 1, activeIndex, activeIndex + 1} \cap Idx

\* a setLoaded that marks the active item only
setLoadedActiveOnly(prev, activeIndex) ==
    [id \in Ids |-> prev[id] \/ videos[activeIndex].id = id]

\* a setLoaded that starts from an empty object instead of prev
setLoadedWindowOnly(prev, activeIndex) ==
    [id \in Ids |-> \E idx \in adjacentIndices(activeIndex) : videos[idx].id = id]

\* setLoaded(prev => ...): mark the window loaded
setLoaded(prev, activeIndex) ==
    [id \in Ids |->
        prev[id] \/ \E idx \in adjacentIndices(activeIndex) : videos[idx].id = id]

\* a setUserPaused updater that returns prev untouched
clearUserPausedNever(prev, activeId) == prev

\* a setUserPaused updater that returns an empty object
clearUserPausedAll(prev, activeId) == [id \in Ids |-> FALSE]

\* setUserPaused(prev => ...): delete the entry of a newly active id
clearUserPaused(prev, activeId) ==
    IF ~prev[activeId] THEN prev ELSE [prev EXCEPT ![activeId] = FALSE]

\* a loop that pauses the non-active videos without resetting currentTime
pauseNonActiveNoReset(s, activeId) ==
    [s EXCEPT !.elPaused = [i \in Idx |->
                               IF videos[i].id # activeId THEN TRUE ELSE @[i]]]

\* videoRefs.current.forEach: pause and reset all non-active videos
pauseNonActive(s, activeId) ==
    [s EXCEPT !.elPaused = [i \in Idx |->
                               IF videos[i].id # activeId THEN TRUE ELSE @[i]],
              !.elTime = [i \in Idx |->
                             IF videos[i].id # activeId THEN 0 ELSE @[i]]]

\* a play step without the currentSrc test
playActiveNoSrcCheck(s, activeId, activeIndex, ok) ==
    IF ~userPaused[activeId] THEN Play(s, activeIndex, ok) ELSE s

\* a play step that does not look at userPaused
playActiveDespitePause(s, activeId, activeIndex, ok) ==
    IF currentSrc(activeIndex) THEN Play(s, activeIndex, ok) ELSE s

\* then play the active one if the user has not manually paused it; userPaused
\* is the value the callback closed over, that is the state before this batch
playActive(s, activeId, activeIndex, ok) ==
    IF ~userPaused[activeId] /\ currentSrc(activeIndex)
    THEN Play(s, activeIndex, ok)
    ELSE s

\* an else branch that also sets activeVideoId to null
pauseAllAndDeactivate(s) ==
    [s EXCEPT !.elPaused = [i \in Idx |-> TRUE], !.activeVideoId = None,
              !.resub = TRUE]

\* an else branch that rewinds the videos it pauses
pauseAllAndRewind(s) ==
    [s EXCEPT !.elPaused = [i \in Idx |-> TRUE],
              !.elTime = [i \in Idx |-> IF s.elPaused[i] THEN s.elTime[i] ELSE 0]]

\* the else branch: pause every playing video, keep the active id
pauseAll(s) == [s EXCEPT !.elPaused = [i \in Idx |-> TRUE]]

\* the effect "ensure adjacent videos stay paused when they get loaded"; it
\* runs after a render in which activeVideoId or loaded changed
adjacentPausedEffect(s) ==
    IF s.activeVideoId = None \/ findIndex(s.activeVideoId) = -1
    THEN s
    ELSE LET activeIndex == findIndex(s.activeVideoId)
             adj == {activeIndex - 1, activeIndex + 1} \cap Idx
         IN  [s EXCEPT !.elPaused = [i \in Idx |->
                          IF i \in adj /\ s.loaded[videos[i].id] THEN TRUE ELSE @[i]]]

\* the state updates queued for an active id: the ref, setActiveVideoId,
\* setLoaded and, for a newly active id, setUserPaused
queueUpdates(s, activeId) ==
    LET isNewActive == activeId # s.lastActiveIdRef
        activeIndex == findIndex(activeId)
    IN  [s EXCEPT !.lastActiveIdRef = activeId,
                  !.activeVideoId = activeId,
                  !.loaded = setLoaded(@, activeIndex),
                  !.userPaused = IF isNewActive
                                 THEN clearUserPaused(@, activeId)
                                 ELSE @]

\* an if (activeId) branch that plays the active video before it pauses the
\* others
reconcileStepsPlayFirst(s, activeId, ok) ==
    LET s1 == queueUpdates(s, activeId)
        s2 == playActive(s1, activeId, findIndex(activeId), ok)
    IN  <<s1, s2, pauseNonActive(s2, activeId)>>

\* the if (activeId) branch as the states it passes through: after the state
\* updates are queued, after the loop that pauses the non-active videos, after
\* the play of the active one
reconcileSteps(s, activeId, ok) ==
    LET s1 == queueUpdates(s, activeId)
        s2 == pauseNonActive(s1, activeId)
    IN  <<s1, s2, playActive(s2, activeId, findIndex(activeId), ok)>>

\* a handleIntersection whose observer effect does not list activeVideoId
\* among its dependencies
reconcileNoRerun(s, activeId, ok) ==
    IF activeId # None
    THEN LET steps == reconcileSteps(s, activeId, ok)
             s1 == steps[1]
             s3 == steps[Len(steps)]
         IN  [adjacentPausedEffect(s3) EXCEPT
                 !.resub = s1.userPaused # s.userPaused]
    ELSE pauseAll(s)

\* the body of handleIntersection after the entries.forEach loop, and the
\* effect the following render runs
reconcile(s, activeId, ok) ==
    IF activeId # None
    THEN LET steps == reconcileSteps(s, activeId, ok)
             s1 == steps[1]
             s3 == steps[Len(steps)]
         IN  [adjacentPausedEffect(s3) EXCEPT
                 !.resub = s1.activeVideoId # s.activeVideoId
                           \/ s1.userPaused # s.userPaused]
    ELSE pauseAll(s)

handleIntersection(s, entries, ok) == reconcile(s, ActiveCandidate(entries), ok)

\* ----------------------------------------------------------------- actions
\* The observer delivers a batch to handleIntersection.
ObserverNotify ==
    \E a \in Candidates[observerFresh], ok \in BOOLEAN :
        LET s == reconcile(Cur, a, ok)
        IN  /\ Commit(s, [Ev("intersection", a, s) EXCEPT
                              !.isNew = (a # None /\ a # lastActiveIdRef),
                              !.wasPaused = (a # None /\ userPaused[a])])
            /\ observerFresh' = s.resub

\* onClick of the video of slide index; the user can scroll any slide into
\* view before clicking.
VideoClick ==
    \E index \in Idx, ok \in BOOLEAN :
        LET s == handleVideoClick(Cur, videos[index].id, index, ok)
        IN  /\ Cardinality(s.pendingThen) <= MaxPending
            /\ Commit(s, Ev("click", videos[index].id, s))
            /\ observerFresh' = (observerFresh \/ s.resub)

\* handleKeyDown, case " ": toggle play/pause of the active video
KeySpace ==
    /\ activeVideoId # None
    /\ findIndex(activeVideoId) \in Idx
    /\ \E ok \in BOOLEAN :
          LET s == handleVideoClick(Cur, activeVideoId, findIndex(activeVideoId), ok)
          IN  /\ Cardinality(s.pendingThen) <= MaxPending
              /\ Commit(s, Ev("space", activeVideoId, s))
              /\ observerFresh' = (observerFresh \/ s.resub)

\* a mute key that can only unmute
toggleMuteOff(s) == [s EXCEPT !.isMuted = FALSE]

\* setIsMuted(prev => !prev)
toggleMute(s) == [s EXCEPT !.isMuted = ~@]

\* handleKeyDown, case "m"
KeyMute ==
    /\ Commit(toggleMute(Cur), Ev("mute", None, Cur))
    /\ observerFresh' = TRUE

\* a then callback that leaves userPaused alone
playThenKeep(s, id) == [s EXCEPT !.pendingThen = @ \ {id}]

\* .then(() => setUserPaused(prev => ({ ...prev, [id]: false })))
playThen(s, id) ==
    [s EXCEPT !.userPaused[id] = FALSE, !.pendingThen = @ \ {id}]

\* The promise of a play() started by handleVideoClick is fulfilled.
PlayResolved ==
    \E id \in pendingThen :
        /\ Commit(playThen(Cur, id), Ev("resolved", id, Cur))
        /\ observerFresh' = TRUE

\* a catch callback that records the item as paused by the user
PlayRejectedMarksPaused ==
    \E id \in pendingThen :
        /\ Commit([Cur EXCEPT !.userPaused[id] = TRUE, !.pendingThen = @ \ {id}],
                  Ev("rejected", None, Cur))
        /\ observerFresh' = TRUE

\* The promise is rejected: .catch(() => {})
PlayRejected ==
    \E id \in pendingThen :
        /\ Commit([Cur EXCEPT !.pendingThen = @ \ {id}], Ev("rejected", None, Cur))
        /\ UNCHANGED observerFresh

\* Playback of a playing element advances by one tick.
Tick ==
    \E i \in Idx :
        /\ ~elPaused[i] /\ currentSrc(i) /\ elTime[i] < MaxTime
        /\ Commit([Cur EXCEPT !.elTime[i] = @ + 1], Ev("tick", None, Cur))
        /\ UNCHANGED observerFresh

\* an onEnded without the activeVideoId test
onEndedAlways(s, index, ok) ==
    IF currentSrc(index) /\ s.elPaused[index]
    THEN Play([s EXCEPT !.elTime[index] = 0], index, ok)
    ELSE s

\* onEnded of slide index, with activeVideoId of the last render
onEnded(s, index, ok) ==
    IF s.activeVideoId # videos[index].id
    THEN s
    ELSE IF currentSrc(index) /\ s.elPaused[index]
         THEN Play([s EXCEPT !.elTime[index] = 0], index, ok)
         ELSE s

\* A playing element reaches the end of its media: the browser pauses it and
\* fires ended.
MediaEnded ==
    \E i \in Idx, ok \in BOOLEAN :
        /\ ~elPaused[i] /\ currentSrc(i) /\ elTime[i] = MaxTime
        /\ LET s == onEnded(Pause(Cur, i), i, ok)
           IN  Commit(s, Ev("ended", videos[i].id, s))
        /\ UNCHANGED observerFresh

\* ------------------------------------------------------------ specification
\* an element that holds no resource
NoElement ==
    [currentSrc |-> FALSE, currentTime |-> 0, duration |-> 0,
     hasMetadata |-> FALSE, paused |-> TRUE]

\* useRef(null), useRef(false), no timeout pending, useState({}); scrubbed is
\* history: a touch-move of the gesture in progress has set the position
NoGesture ==
    [touchStartRef |-> <<>>, isScrrubbingRef |-> FALSE, timers |-> <<>>,
     videoProgress |-> 0, scrubbed |-> FALSE]

\* a listing without children, nothing rendered
NoPage ==
    [raw |-> [hasChildren |-> FALSE, children |-> <<>>], videos |-> <<>>,
     rendered |-> FALSE]

VideoLists ==
    {v \in [Idx -> [id : Ids, hls_url : BOOLEAN]] :
        /\ \A i \in Idx : v[i].id = AllIds[i + 1]
        /\ Cardinality({i \in Idx : ~v[i].hls_url}) <= MaxNoHls}

Init ==
    /\ videos \in VideoLists
    /\ loaded = [id \in Ids |-> FALSE]
    /\ userPaused = [id \in Ids |-> FALSE]
    /\ lastActiveIdRef = None
    /\ activeVideoId = None
    /\ isMuted = TRUE
    /\ elPaused = [i \in Idx |-> TRUE]
    /\ elTime = [i \in Idx |-> 0]
    /\ pendingThen = {}
    /\ observerFresh = TRUE
    /\ activeVideo = NoElement
    /\ slide = NoGesture
    /\ page = NoPage
    /\ playNoSrc = FALSE
    /\ hasInteracted = FALSE
    /\ lastEvent = Ev("init", None, Cur)

Next ==
    \/ ObserverNotify
    \/ VideoClick
    \/ KeySpace
    \/ KeyMute
    \/ PlayResolved
    \/ PlayRejected
    \/ Tick
    \/ MediaEnded

Spec == Init /\ [][Next]_vars

\* ---------------------------------------------------------------- seek keys
\* The arrowleft / arrowright cases of handleKeyDown, on their own: they read
\* and write only the element they seek.  Times are whole seconds.

\* a media element that takes every value assigned to currentTime as it is
seekUnclamped(el, time) == [el EXCEPT !.currentTime = time]

\* setting el.currentTime seeks; the element keeps the new position within
\* [0, duration].  While the element has no metadata (readyState HAVE_NOTHING,
\* duration NaN) the value becomes its default playback start position, which
\* currentTime reports from then on and playback starts from once loaded.
seek(el, time) ==
    IF ~el.hasMetadata
    THEN [el EXCEPT !.currentTime = time]
    ELSE [el EXCEPT !.currentTime =
             IF time < 0 THEN 0
             ELSE IF time > el.duration THEN el.duration ELSE time]

\* case "arrowleft": currentTime = Math.max(0, currentTime - 5)
arrowLeft(el) ==
    IF el.currentSrc
    THEN seek(el, IF el.currentTime - SecondsPerJump > 0
                  THEN el.currentTime - SecondsPerJump ELSE 0)
    ELSE el

\* case "arrowright": currentTime = Math.min(duration, currentTime + 5).
\* Math.min of a NaN duration is NaN, whose assignment throws inside the try.
arrowRight(el) ==
    IF el.currentSrc /\ el.hasMetadata
    THEN seek(el, IF el.currentTime + SecondsPerJump < el.duration
                  THEN el.currentTime + SecondsPerJump ELSE el.duration)
    ELSE el

\* The same keys in the variant of the component (src/unnamed/part_000), which
\* wraps around: both cases are guarded by activeVideo.duration, which is falsy
\* while it is NaN or 0.
\* case "arrowleft": newTime < 0 ? duration + newTime : newTime
arrowLeftRef(el) ==
    IF el.currentSrc /\ el.hasMetadata /\ el.duration # 0
    THEN LET newTime == el.currentTime - SecondsPerJump
         IN  seek(el, IF newTime < 0 THEN el.duration + newTime ELSE newTime)
    ELSE el

\* case "arrowright": newTime > duration ? newTime - duration : newTime
arrowRightRef(el) ==
    IF el.currentSrc /\ el.hasMetadata /\ el.duration # 0
    THEN LET newTime == el.currentTime + SecondsPerJump
         IN  seek(el, IF newTime > el.duration THEN newTime - el.duration
                      ELSE newTime)
    ELSE el

\* an activeIndex without the default for no active video
keyActiveIndexOrNone(activeId) == findIndex(activeId)

\* handleKeyDown: activeIndex, 0 while no video is active
keyActiveIndex(activeId) == IF activeId # None THEN findIndex(activeId) ELSE 0

\* sectionRefs.current[index], as the id of the slide or None where there is
\* no such section
sectionAt(index) == IF index \in Idx THEN videos[index].id ELSE None

\* case "j": the section scrollIntoView is called on
keyNext(activeId) == sectionAt(keyActiveIndex(activeId) + 1)

\* case "k"
keyPrev(activeId) == sectionAt(keyActiveIndex(activeId) - 1)

\* The scroll itself is the browser's; lastEvent.id records its target.
KeyNext ==
    /\ lastEvent' = Ev("j", keyNext(activeVideoId), Cur)
    /\ UNCHANGED <<feedVars, activeVideo>>

KeyPrev ==
    /\ lastEvent' = Ev("k", keyPrev(activeVideoId), Cur)
    /\ UNCHANGED <<feedVars, activeVideo>>

KeyArrowLeft ==
    /\ activeVideo' = arrowLeft(activeVideo)
    /\ lastEvent' = Ev("arrowleft", None, Cur)
    /\ UNCHANGED feedVars

KeyArrowRight ==
    /\ activeVideo' = arrowRight(activeVideo)
    /\ lastEvent' = Ev("arrowright", None, Cur)
    /\ UNCHANGED feedVars

KeyArrowLeftRef ==
    /\ activeVideo' = arrowLeftRef(activeVideo)
    /\ lastEvent' = Ev("wrapleft", None, Cur)
    /\ UNCHANGED feedVars

KeyArrowRightRef ==
    /\ activeVideo' = arrowRightRef(activeVideo)
    /\ lastEvent' = Ev("wrapright", None, Cur)
    /\ UNCHANGED feedVars

\* the elements the keys are tried on: with or without a source, of every
\* duration up to MaxDuration, at every position, and before their metadata
\* has loaded
SeekElements ==
    {el \in [currentSrc : BOOLEAN, currentTime : 0 .. MaxDuration,
             duration : 1 .. MaxDuration, hasMetadata : BOOLEAN,
             paused : {TRUE}] :
        /\ el.currentTime <= el.duration
        /\ ~el.hasMetadata => el.currentTime = 0}

SeekInit ==
    /\ videos = [i \in Idx |-> [id |-> AllIds[i + 1], hls_url |-> TRUE]]
    /\ loaded = [id \in Ids |-> FALSE]
    /\ userPaused = [id \in Ids |-> FALSE]
    /\ lastActiveIdRef = None
    /\ activeVideoId \in Ids \cup {None}
    /\ isMuted = TRUE
    /\ elPaused = [i \in Idx |-> TRUE]
    /\ elTime = [i \in Idx |-> 0]
    /\ pendingThen = {}
    /\ observerFresh = TRUE
    /\ activeVideo \in SeekElements
    /\ slide = NoGesture
    /\ page = NoPage
    /\ playNoSrc = FALSE
    /\ hasInteracted = FALSE
    /\ lastEvent = Ev("init", None, Cur)

SeekNext ==
    \/ KeyNext
    \/ KeyPrev
    \/ KeyArrowLeft
    \/ KeyArrowRight
    \/ KeyArrowLeftRef
    \/ KeyArrowRightRef

SeekSpec == SeekInit /\ [][SeekNext]_vars

\* ------------------------------------------------------------ touch variant
\* The handlers the variant of src/unnamed/part_000 adds, on the slide of
\* index 0 and its element activeVideo: the restart key, the touch scrub and
\* the click that follows it, the progress bar, and the restart at the end of
\* the media.  Touch positions are pixels from the left and top edge of the
\* element, whose bounding box is RectWidth pixels wide.

\* the bound of pending timeouts
MaxTimers == 2
\* rect.width of the element
RectWidth == 20
\* "Require at least 10px movement to make a decision"
ScrubThreshold == 10

SlideId == AllIds[1]
TouchXs == {0, ScrubThreshold - 1, ScrubThreshold, RectWidth + 5}
TouchYs == {0, ScrubThreshold}
ProgressXs == {0, RectWidth \div 2, RectWidth}

\* the part of the state these handlers read and write
RichCur ==
    [el |-> activeVideo, slide |-> slide, activeVideoId |-> activeVideoId,
     isMuted |-> isMuted, userPaused |-> userPaused,
     hasInteractedRef |-> hasInteracted, pendingThen |-> pendingThen]

RichCommit(s, op) ==
    /\ activeVideo' = s.el
    /\ slide' = s.slide
    /\ isMuted' = s.isMuted
    /\ userPaused' = s.userPaused
    /\ hasInteracted' = s.hasInteractedRef
    /\ pendingThen' = s.pendingThen
    /\ lastEvent' = [op |-> op, id |-> SlideId, played |-> None,
                     isNew |-> FALSE, wasPaused |-> FALSE]
    /\ UNCHANGED <<videos, loaded, lastActiveIdRef, activeVideoId, elPaused,
                   elTime, observerFresh, page, playNoSrc>>

\* `el.duration` as a condition: a number other than NaN and 0
truthyDuration(el) == el.hasMetadata /\ el.duration # 0

\* el.play(); playing from the end of the media seeks to the start
elPlay(el, ok) ==
    IF ok
    THEN [el EXCEPT !.paused = FALSE,
                    !.currentTime = IF el.hasMetadata /\ el.paused
                                       /\ el.currentTime = el.duration
                                    THEN 0 ELSE @]
    ELSE el

\* el.load(): the element drops its data and fetches the resource again; its
\* duration is NaN until the metadata arrives
load(el) == [el EXCEPT !.hasMetadata = FALSE, !.currentTime = 0, !.paused = TRUE]

\* handleVideoClick of the variant: the first interaction is told by
\* hasInteractedRef
handleVideoClickRef(s, id, ok) ==
    LET play(t) == IF ok
                   THEN [t EXCEPT !.el = elPlay(@, ok), !.pendingThen = @ \cup {id}]
                   ELSE t
    IN  IF ~s.hasInteractedRef
        THEN LET s1 == [s EXCEPT !.hasInteractedRef = TRUE, !.isMuted = FALSE]
             IN  IF s1.el.paused /\ s1.el.currentSrc THEN play(s1) ELSE s1
        ELSE IF s.el.paused
             THEN IF s.el.currentSrc THEN play(s) ELSE s
             ELSE [s EXCEPT !.el.paused = TRUE, !.userPaused[id] = TRUE]

\* a restart key without the duration test
restartKeyNoDuration(s) ==
    IF s.activeVideoId = None
    THEN s
    ELSE IF findIndex(s.activeVideoId) # findIndex(SlideId)
         THEN s
         ELSE IF s.el.currentSrc THEN [s EXCEPT !.el = seek(@, 0)] ELSE s

\* handleKeyDown, case "r"; the element is that of the active slide
restartKey(s) ==
    IF s.activeVideoId = None
    THEN s
    ELSE IF findIndex(s.activeVideoId) # findIndex(SlideId)
         THEN s
         ELSE IF s.el.currentSrc /\ truthyDuration(s.el)
              THEN [s EXCEPT !.el = seek(@, 0)]
              ELSE s

onTouchStart(s, x, y) ==
    [s EXCEPT !.slide.touchStartRef =
                  <<[x |-> x, y |-> y, time |-> s.el.currentTime]>>,
              !.slide.scrubbed = FALSE]

\* "If not yet scrubbing, check if we should start"
scrubStarts(deltaX, deltaY) ==
    /\ ~(Abs(deltaX) < ScrubThreshold /\ Abs(deltaY) < ScrubThreshold)
    /\ ~(Abs(deltaX) <= Abs(deltaY))

\* percentage * videoEl.duration, in whole seconds
scrubTime(el, x) ==
    LET relativeX == IF x < 0 THEN 0 ELSE IF x > RectWidth THEN RectWidth ELSE x
    IN  (relativeX * el.duration) \div RectWidth

onTouchMove(s, x, y) ==
    IF s.slide.touchStartRef = <<>>
    THEN s
    ELSE IF ~truthyDuration(s.el)
         THEN s
         ELSE LET deltaX == x - s.slide.touchStartRef[1].x
                  deltaY == y - s.slide.touchStartRef[1].y
              IN  IF ~s.slide.isScrrubbingRef /\ ~scrubStarts(deltaX, deltaY)
                  THEN s
                  ELSE [s EXCEPT !.slide.isScrrubbingRef = TRUE,
                                 !.slide.scrubbed = TRUE,
                                 !.el = seek(@, scrubTime(s.el, x))]

\* onTouchEnd sets a timeout; the list keeps, oldest first, for each pending
\* timeout whether the gesture it ended had scrubbed
onTouchEnd(s) ==
    [s EXCEPT !.slide.touchStartRef = <<>>,
              !.slide.timers = Append(@, s.slide.scrubbed)]

\* the timeout callback of onTouchEnd
scrubTimeout(s) ==
    [s EXCEPT !.slide.isScrrubbingRef = FALSE, !.slide.timers = Tail(@)]

\* onClick of the video
onClick(s, ok) ==
    IF s.slide.isScrrubbingRef
    THEN [s EXCEPT !.slide.isScrrubbingRef = FALSE]
    ELSE handleVideoClickRef(s, SlideId, ok)

\* onClick of the progress bar, x pixels from its left edge; the bar is as
\* wide as the element
progressClick(s, x) ==
    IF s.slide.videoProgress # 0
    THEN [s EXCEPT !.el = seek(@, (x * s.slide.videoProgress) \div RectWidth)]
    ELSE s

\* onLoadedMetadata: setVideoProgress with duration: el.duration || 0
onLoadedMetadata(s) == [s EXCEPT !.slide.videoProgress = s.el.duration]

\* onEnded of the variant
onEndedRef(s, ok) ==
    IF s.activeVideoId # SlideId
    THEN s
    ELSE IF s.el.currentSrc /\ s.el.paused
         THEN [s EXCEPT !.el = elPlay(load(seek(@, 0)), ok)]
         ELSE s

KeyRestart == RichCommit(restartKey(RichCur), "r")

TouchStart ==
    \E x \in {0, ScrubThreshold}, y \in {0} :
        /\ slide.touchStartRef = <<>>
        /\ RichCommit(onTouchStart(RichCur, x, y), "touchstart")

TouchMove ==
    \E x \in TouchXs, y \in TouchYs :
        /\ slide.touchStartRef # <<>>
        /\ RichCommit(onTouchMove(RichCur, x, y), "touchmove")

TouchEnd ==
    /\ slide.touchStartRef # <<>>
    /\ Len(slide.timers) < MaxTimers
    /\ RichCommit(onTouchEnd(RichCur), "touchend")

ScrubTimeout ==
    /\ slide.timers # <<>>
    /\ RichCommit(scrubTimeout(RichCur), "timeout")

SlideClick == \E ok \in BOOLEAN : RichCommit(onClick(RichCur, ok), "slideclick")

ProgressClick ==
    \E x \in ProgressXs : RichCommit(progressClick(RichCur, x), "progress")

\* The metadata of the element's resource arrives: its duration is known and
\* playback takes up the default playback start position.
LoadedMetadata ==
    /\ activeVideo.currentSrc /\ ~activeVideo.hasMetadata
    /\ LET el == [activeVideo EXCEPT !.hasMetadata = TRUE,
                      !.currentTime = IF @ > activeVideo.duration
                                      THEN activeVideo.duration ELSE @]
       IN  RichCommit(onLoadedMetadata([RichCur EXCEPT !.el = el]), "loadedmetadata")

\* Playback runs to the end of the media: the browser pauses the element and
\* fires ended.
PlaybackEnded ==
    \E ok \in BOOLEAN :
        /\ activeVideo.currentSrc /\ ~activeVideo.paused
        /\ truthyDuration(activeVideo)
        /\ LET el == [activeVideo EXCEPT !.currentTime = activeVideo.duration,
                                         !.paused = TRUE]
           IN  RichCommit(onEndedRef([RichCur EXCEPT !.el = el], ok), "slideended")

\* the promise of a play() of handleVideoClick settles
SlidePlayResolved ==
    \E id \in pendingThen : RichCommit(playThen(RichCur, id), "slideresolved")

SlidePlayRejected ==
    \E id \in pendingThen :
        RichCommit([RichCur EXCEPT !.pendingThen = @ \ {id}], "sliderejected")

\* the element when the slide is first rendered, with or without a source;
\* the resource is empty or MaxDuration seconds long
GestureElements ==
    [currentSrc : BOOLEAN, currentTime : {0}, duration : {0, MaxDuration},
     hasMetadata : {FALSE}, paused : {TRUE}]

GestureInit ==
    /\ videos = [i \in Idx |-> [id |-> AllIds[i + 1], hls_url |-> TRUE]]
    /\ loaded = [id \in Ids |-> FALSE]
    /\ userPaused = [id \in Ids |-> FALSE]
    /\ lastActiveIdRef = None
    /\ activeVideoId \in {None, SlideId, AllIds[2]}
    /\ isMuted = TRUE
    /\ elPaused = [i \in Idx |-> TRUE]
    /\ elTime = [i \in Idx |-> 0]
    /\ pendingThen = {}
    /\ observerFresh = TRUE
    /\ activeVideo \in GestureElements
    /\ activeVideoId = None => ~activeVideo.currentSrc
    /\ slide = NoGesture
    /\ page = NoPage
    /\ playNoSrc = FALSE
    /\ hasInteracted = FALSE
    /\ lastEvent = Ev("init", None, Cur)

GestureNext ==
    \/ KeyRestart
    \/ TouchStart
    \/ TouchMove
    \/ TouchEnd
    \/ ScrubTimeout
    \/ SlideClick
    \/ ProgressClick
    \/ LoadedMetadata
    \/ PlaybackEnded
    \/ SlidePlayResolved
    \/ SlidePlayRejected

GestureSpec == GestureInit /\ [][GestureNext]_vars

\* ------------------------------------------------------------------ claims
Playing == {i \in Idx : ~elPaused[i]}

\* C1: in every reachable state at most one slide's media element is playing.
AtMostOnePlaying == Cardinality(Playing) <= 1

\* C2: whenever activeVideoId is the item at position K, the items at positions
\* K-1, K and K+1 (clipped to the list) are in loaded.
ActiveWindowLoaded ==
    activeVideoId # None =>
        \A i \in adjacentIndices(findIndex(activeVideoId)) : loaded[videos[i].id]

\* a visibility batch has just made the last item of the list active
WitnessLastItemActive ==
    /\ lastEvent.op = "intersection"
    /\ lastEvent.id = AllIds[NumVideos]
    /\ lastEvent.isNew
    /\ activeVideoId = AllIds[NumVideos]

\* C3: no step removes an id from loaded.
LoadedMonotonic == [][\A id \in Ids : loaded[id] => loaded'[id]]_vars

\* an id is loaded although it is outside the window of the active item
WitnessLoadedOutsideWindow ==
    /\ activeVideoId = AllIds[NumVideos]
    /\ loaded[AllIds[1]]
    /\ lastEvent.op = "intersection"

\* C4: a visibility batch in which no container exceeds the threshold leaves
\* activeVideoId as it was, and no step resets a set activeVideoId to none.
ActivePreserved ==
    [][/\ (lastEvent'.op = "intersection" /\ lastEvent'.id = None)
            => activeVideoId' = activeVideoId
       /\ activeVideoId # None => activeVideoId' # None]_vars

\* a batch without a candidate was handled while an item was active
WitnessNothingVisible ==
    /\ lastEvent.op = "intersection"
    /\ lastEvent.id = None
    /\ activeVideoId # None

\* C5: for every batch the observer can deliver, the candidate chosen is the
\* container with the highest ratio among those whose ratio meets or exceeds
\* the threshold; a ratio equal to the threshold is eligible.
HighestRatioChosen ==
    \A e \in Batches[observerFresh] :
        LET meets == {k \in 1 .. Len(e) :
                         /\ e[k].isIntersecting
                         /\ e[k].intersectionRatio >= ActivationRatio}
        IN  meets # {} =>
                \E k \in meets :
                    /\ ActiveCandidate(e) = AllIds[e[k].index + 1]
                    /\ \A j \in meets :
                           e[j].intersectionRatio <= e[k].intersectionRatio

\* C6: immediately after a visibility batch selects an item as active, every
\* other slide's element is paused at position zero.
OthersPausedAtZero ==
    (lastEvent.op = "intersection" /\ lastEvent.id # None) =>
        \A i \in Idx :
            videos[i].id # lastEvent.id => elPaused[i] /\ elTime[i] = 0

\* a batch made a further item active and started it, every item of the list
\* being loaded by then
WitnessActiveMovedOn ==
    /\ lastEvent.op = "intersection"
    /\ lastEvent.isNew
    /\ lastEvent.played = lastEvent.id
    /\ \E i \in Idx : videos[i].id = lastEvent.id /\ ~elPaused[i]
    /\ Cardinality({id \in Ids : loaded[id]}) = NumVideos

\* C7: play() is never invoked on an element without a resolved source.
NoPlayWithoutSource == ~playNoSrc

\* play() has been invoked while an item without a media url is loaded
WitnessPlayInvoked ==
    /\ lastEvent.played # None
    /\ \E i \in Idx : ~videos[i].hls_url /\ loaded[videos[i].id]

\* C8: a visibility batch that makes a new id active leaves that id's
\* userPaused entry false or absent and does not change the other entries.
NewActiveClearsUserPaused ==
    [][\A a \in Ids :
          (lastEvent'.op = "intersection" /\ lastEvent'.id = a
              /\ a # lastActiveIdRef)
          => /\ ~userPaused'[a]
             /\ \A o \in Ids \ {a} : userPaused'[o] = userPaused[o]]_vars

\* a user-paused item became newly active while another item is user-paused
WitnessStaleFlagCleared ==
    /\ lastEvent.op = "intersection"
    /\ lastEvent.isNew
    /\ lastEvent.wasPaused
    /\ \E o \in Ids \ {lastEvent.id} : userPaused[o]

\* the initial report of a re-created observer is owed and will find item a
\* active, not user-paused and with a source
AutoplayOwed(a) ==
    /\ observerFresh
    /\ activeVideoId = a
    /\ ~userPaused[a]
    /\ currentSrc(findIndex(a))

UserIndependentOps == {"resolved", "rejected", "tick", "ended"}

\* C9: an item that becomes newly active and has a source gets a play attempt
\* without user input, whether or not it was user-paused before: the batch
\* either invokes play() on it or leaves the observer re-created with the
\* item eligible; no step other than user input withdraws that, and the
\* re-created observer's report invokes play() on it.
FreshArrivalAutoplay ==
    [][\A a \in Ids :
          /\ (lastEvent'.op = "intersection" /\ lastEvent'.id = a
                 /\ a # lastActiveIdRef /\ loaded'[a]
                 /\ videos[findIndex(a)].hls_url)
             => (lastEvent'.played = a \/ AutoplayOwed(a)')
          /\ (AutoplayOwed(a) /\ lastEvent'.op \in UserIndependentOps)
             => (lastEvent'.played = a \/ AutoplayOwed(a)')
          /\ (AutoplayOwed(a) /\ lastEvent'.op = "intersection"
                 /\ lastEvent'.id = a)
             => lastEvent'.played = a]_vars

\* a user-paused item with a source became active again and the observer's
\* next report is owed
WitnessRearrival ==
    /\ lastEvent.op = "intersection"
    /\ lastEvent.isNew
    /\ lastEvent.wasPaused
    /\ lastEvent.played = None
    /\ AutoplayOwed(lastEvent.id)

\* C10: every click or space toggle leaves isMuted false, so from the initial
\* muted state the first click unmutes and no later click mutes again.
ClicksNeverMute ==
    [][lastEvent'.op \in {"click", "space"} => ~isMuted']_vars

\* a click was handled while the feed was already unmuted
WitnessSecondClick ==
    /\ lastEvent.op = "click"
    /\ ~isMuted
    /\ \E id \in Ids : userPaused[id]

\* C11: the very first click or space toggle is never taken as a pause: an
\* element that is playing when it is clicked keeps playing and no userPaused
\* entry becomes true; a paused element with a source gets a play attempt.
FirstInteractionNeverPauses ==
    [][(~hasInteracted /\ lastEvent'.op \in {"click", "space"}) =>
          LET i == findIndex(lastEvent'.id)
          IN  /\ ~elPaused[i] =>
                    /\ ~elPaused'[i]
                    /\ \A id \in Ids : userPaused'[id] => userPaused[id]
              /\ (elPaused[i] /\ currentSrc(i)) =>
                    lastEvent'.played = lastEvent'.id]_vars

\* C12: every click or space toggle after the first one leaves isMuted as it
\* is and acts as a play/pause toggle: a playing element is paused, a paused
\* element with a source gets a play attempt.
LaterInteractionsOnlyToggle ==
    [][(hasInteracted /\ lastEvent'.op \in {"click", "space"}) =>
          LET i == findIndex(lastEvent'.id)
          IN  /\ isMuted' = isMuted
              /\ ~elPaused[i] => elPaused'[i]
              /\ (elPaused[i] /\ currentSrc(i)) =>
                    lastEvent'.played = lastEvent'.id]_vars

toggleOnce(s, id, index) ==
    LET s1 == handleVideoClick([s EXCEPT !.played = None], id, index, TRUE)
    IN  IF s1.played = id THEN playThen(s1, id) ELSE s1

toggleTwice(s, id, index) == toggleOnce(toggleOnce(s, id, index), id, index)

\* the feed is unmuted and slide index is loaded and has a source
Toggleable(index) ==
    ~isMuted /\ loaded[videos[index].id] /\ currentSrc(index)

\* C14 as stated: two toggles on an unmuted, loaded item with a source return
\* userPaused[id] and the element's paused state to their values before.
TwoTogglesRestoreBoth ==
    \A index \in Idx :
        Toggleable(index) =>
            LET id == videos[index].id
                s2 == toggleTwice(Cur, id, index)
            IN  /\ s2.elPaused[index] = elPaused[index]
                /\ s2.userPaused[id] = userPaused[id]

\* C14, amended: two toggles return the element's paused state to its value
\* before and leave userPaused[id] true exactly if the element is paused, so
\* userPaused[id] returns to its value before exactly if it agreed with the
\* element's paused state.
TwoTogglesRestoreElement ==
    \A index \in Idx :
        Toggleable(index) =>
            LET id == videos[index].id
                s2 == toggleTwice(Cur, id, index)
            IN  /\ s2.elPaused[index] = elPaused[index]
                /\ s2.userPaused[id] = elPaused[index]
                /\ s2.isMuted = isMuted

\* a click has paused an unmuted item with a source, and another item with a
\* source is paused without being user-paused
WitnessToggledPaused ==
    /\ lastEvent.op = "click"
    /\ \E index \in Idx :
          /\ videos[index].id = lastEvent.id
          /\ Toggleable(index)
          /\ elPaused[index]
          /\ userPaused[lastEvent.id]
    /\ \E other \in Idx :
          Toggleable(other) /\ elPaused[other] /\ ~userPaused[videos[other].id]

\* C15: when an element's ended event is handled, the element is set back to
\* position zero and play() is invoked on it if and only if its item is the
\* active one and the element has a source; otherwise it is neither seeked
\* nor played.
EndedRestartsOnlyActive ==
    [][lastEvent'.op = "ended" =>
          LET id == lastEvent'.id
              i == findIndex(id)
          IN  IF activeVideoId = id /\ currentSrc(i)
              THEN lastEvent'.played = id /\ elTime'[i] = 0
              ELSE /\ lastEvent'.played = None
                   /\ elTime'[i] = elTime[i]
                   /\ elPaused'[i]]_vars

\* an element that is not the active one has ended
WitnessEndedNotActive ==
    /\ lastEvent.op = "ended"
    /\ activeVideoId # None
    /\ lastEvent.id # activeVideoId
    /\ elTime[findIndex(lastEvent.id)] = MaxTime

\* C16: the seek keys shift the position p of an element of duration d by 5
\* seconds with wrap-around: arrowleft yields p - 5 if that is not negative
\* and d + (p - 5) otherwise, arrowright yields p + 5 if that is at most d and
\* (p + 5) - d otherwise.
SeekWrapsAround ==
    [][LET p == activeVideo.currentTime
           d == activeVideo.duration
       IN  /\ (lastEvent'.op = "arrowleft" /\ activeVideo.currentSrc) =>
                 activeVideo'.currentTime =
                     IF p - SecondsPerJump >= 0
                     THEN p - SecondsPerJump ELSE d + (p - SecondsPerJump)
           /\ (lastEvent'.op = "arrowright" /\ activeVideo.currentSrc) =>
                 activeVideo'.currentTime =
                     IF p + SecondsPerJump <= d
                     THEN p + SecondsPerJump ELSE (p + SecondsPerJump) - d]_vars

\* C17: the mute key can be pressed in every state; it flips isMuted and
\* leaves activeVideoId, loaded and userPaused alone, and pressing it twice
\* restores isMuted.
MuteKeyFlips ==
    /\ [](ENABLED KeyMute /\ toggleMute(toggleMute(Cur)).isMuted = isMuted)
    /\ [][lastEvent'.op = "mute" =>
             /\ isMuted' = ~isMuted
             /\ UNCHANGED <<activeVideoId, loaded, userPaused>>]_vars

\* the mute key has muted the feed again while an element plays
WitnessMutedWhilePlaying ==
    /\ lastEvent.op = "mute"
    /\ isMuted
    /\ hasInteracted
    /\ \E i \in Idx : ~elPaused[i]

\* C18: a reconciliation pass that selects an active item has paused every
\* non-active element when it invokes play() on the active one: in the state
\* in which play() is invoked, and in every later state of the pass, no
\* non-active element is playing.
PausesBeforePlay ==
    \A a \in Candidates[observerFresh] \ {None}, ok \in BOOLEAN :
        LET steps == reconcileSteps(Cur, a, ok)
            othersPaused(s) == \A i \in Idx : videos[i].id # a => s.elPaused[i]
        IN  \A k \in 2 .. Len(steps) :
                steps[k].played = a =>
                    othersPaused(steps[k - 1]) /\ othersPaused(steps[k])

\* an element plays and the observer can deliver a batch that makes another
\* item active and plays it
WitnessPlayWhileOtherPlays ==
    \E a \in Candidates[observerFresh] \ {None} :
        /\ \E i \in Idx : videos[i].id # a /\ ~elPaused[i]
        /\ reconcile(Cur, a, TRUE).played = a

\* what a rejected play() must not influence
Settings(s) == <<s.activeVideoId, s.loaded, s.userPaused, s.isMuted>>

\* C19: a rejected play() is absorbed: whether the play() a handler invokes is
\* refused or not makes no difference to activeVideoId, loaded, userPaused and
\* isMuted, and the rejection of a pending promise leaves them as they are.
RejectedPlayAbsorbed ==
    /\ [](/\ \A index \in Idx :
                Settings(handleVideoClick(Cur, videos[index].id, index, FALSE))
                    = Settings(handleVideoClick(Cur, videos[index].id, index, TRUE))
          /\ \A a \in Candidates[observerFresh] :
                Settings(reconcile(Cur, a, FALSE)) = Settings(reconcile(Cur, a, TRUE))
          /\ \A index \in Idx :
                Settings(onEnded(Pause(Cur, index), index, FALSE))
                    = Settings(onEnded(Pause(Cur, index), index, TRUE)))
    /\ [][lastEvent'.op = "rejected" =>
             UNCHANGED <<activeVideoId, loaded, userPaused, isMuted>>]_vars

\* the promise of a resuming click was rejected while its item is user-paused
WitnessResumeRejected ==
    /\ lastEvent.op = "rejected"
    /\ pendingThen = {}
    /\ \E id \in Ids : userPaused[id]

\* C20: the fulfilment of a play() started by a click, arriving when the
\* element has been paused again, is ignored: it changes neither userPaused
\* nor any other setting.
StaleResolveIgnored ==
    [][(lastEvent'.op = "resolved" /\ elPaused[findIndex(lastEvent'.id)]) =>
          UNCHANGED <<activeVideoId, loaded, userPaused, isMuted>>]_vars

\* the handlers of the touch variant that set the position of the element
ControllerSeeks == {"r", "touchmove", "progress", "slideended"}

\* C21: every seek of the controller (restart key, touch scrub, progress-bar
\* click, restart at the end of the media) happens only when the element's
\* duration is a known positive number: with an unknown or zero duration the
\* operation leaves the position unchanged.
SeeksNeedDuration ==
    [][(lastEvent'.op \in ControllerSeeks /\ ~truthyDuration(activeVideo)) =>
          activeVideo'.currentTime = activeVideo.currentTime]_vars

\* C22: the restart key sets the position of the active element to zero
\* exactly when an active item exists, its element has a source and its
\* duration is known; otherwise it changes nothing.  It never changes the
\* element's paused state, userPaused, isMuted or activeVideoId.
RestartKeyRewinds ==
    [][(lastEvent'.op = "r" /\ activeVideoId \in {None, SlideId}) =>
          /\ IF activeVideoId # None /\ activeVideo.currentSrc
                /\ activeVideo.hasMetadata
             THEN activeVideo'.currentTime = 0
             ELSE activeVideo'.currentTime = activeVideo.currentTime
          /\ activeVideo' = [activeVideo EXCEPT !.currentTime = activeVideo'.currentTime]
          /\ UNCHANGED <<userPaused, isMuted, activeVideoId, slide>>]_vars

\* the restart key has rewound a playing active element
WitnessRestarted ==
    /\ lastEvent.op = "r"
    /\ activeVideoId = SlideId
    /\ ~activeVideo.paused
    /\ activeVideo.currentTime = 0
    /\ slide.touchStartRef # <<>>
    /\ slide.scrubbed

\* C23: a touch gesture enters scrub mode only once its movement from the
\* touch-start point exceeds the pixel threshold on both axes and the
\* horizontal displacement is strictly larger than the vertical one; until
\* then touch-move events do not seek the element.  Stated of the first
\* touch-move of a gesture that sets the position.
ScrubNeedsBothAxes ==
    \A x \in TouchXs, y \in TouchYs :
        (slide.touchStartRef # <<>> /\ ~slide.scrubbed) =>
            LET deltaX == x - slide.touchStartRef[1].x
                deltaY == y - slide.touchStartRef[1].y
            IN  onTouchMove(RichCur, x, y).slide.scrubbed =>
                    /\ Abs(deltaX) > ScrubThreshold
                    /\ Abs(deltaY) > ScrubThreshold
                    /\ Abs(deltaX) > Abs(deltaY)

\* a gesture that scrubbed has ended and the timeout its touch-end set has
\* not run yet
ScrubGuardPending == \E i \in 1 .. Len(slide.timers) : slide.timers[i]

\* C24: a click on the video that arrives after the touch-end of a scrub and
\* before the guard delay has expired changes neither the element's paused
\* state nor userPaused nor isMuted; a click that arrives after the delay has
\* expired is handled as a normal toggle.
TapAfterScrubIgnored ==
    [][(lastEvent'.op = "slideclick" /\ slide.touchStartRef = <<>>) =>
          /\ ScrubGuardPending =>
                /\ activeVideo'.paused = activeVideo.paused
                /\ UNCHANGED <<userPaused, isMuted>>
          /\ slide.timers = <<>> =>
                \E ok \in BOOLEAN :
                    LET s == handleVideoClickRef(RichCur, SlideId, ok)
                    IN  /\ activeVideo' = s.el
                        /\ userPaused' = s.userPaused
                        /\ isMuted' = s.isMuted]_vars

\* C25: an item without an hls_url never has a source attached to its
\* element, whether it is active, adjacent or loaded, and play() is never
\* invoked on its element, also not when it is active and gets clicked.
NoSourceWithoutUrl ==
    \A i \in Idx :
        ~videos[i].hls_url =>
            /\ ~currentSrc(i)
            /\ lastEvent.played # videos[i].id

\* the active, loaded item without an hls_url has just been clicked
WitnessClickWithoutUrl ==
    /\ lastEvent.op = "click"
    /\ lastEvent.id = activeVideoId
    /\ activeVideoId # None
    /\ loaded[activeVideoId]
    /\ ~videos[findIndex(activeVideoId)].hls_url

\* slide i is the active slide or next to it
InWindow(i) ==
    /\ activeVideoId # None
    /\ Abs(i - findIndex(activeVideoId)) <= 1

\* C26: in every rendered state a slide has a source attached only if it is
\* active or next to the active slide and its id is loaded, and it has
\* preload "auto" only if it is active or next to the active slide.  Hence at
\* most three slides have a source, none has one while activeVideoId is null,
\* and a loaded slide outside the window has none.
SourcesOnlyInWindow ==
    /\ \A i \in Idx :
          /\ currentSrc(i) => (InWindow(i) /\ loaded[videos[i].id])
          /\ shouldPreload(Cur, i) => InWindow(i)
    /\ Cardinality({i \in Idx : currentSrc(i)}) <= 3
    /\ activeVideoId = None => \A i \in Idx : ~currentSrc(i)

\* a slide that had a source while it was in the window is loaded, outside
\* the window and without a source, while both slides in the window have one
WitnessSourceDropped ==
    \E i \in Idx :
        /\ loaded[videos[i].id] /\ videos[i].hls_url
        /\ activeVideoId # None /\ ~InWindow(i)
        /\ ~currentSrc(i)
        /\ Cardinality({j \in Idx : currentSrc(j)}) = 2

\* C27: the next-item key targets the slide at index active + 1 and the
\* previous-item key the slide at index active - 1; at the last slide the next
\* key and at the first slide the previous key do nothing; with no active
\* item the first slide counts as the active one.  Neither key changes
\* activeVideoId, loaded, userPaused, isMuted or the paused state of an
\* element.
NavigationKeysTarget ==
    [][LET active == IF activeVideoId = None THEN 0 ELSE findIndex(activeVideoId)
       IN  /\ lastEvent'.op = "j" =>
                 /\ lastEvent'.id = IF active = NumVideos - 1
                                    THEN None ELSE videos[active + 1].id
                 /\ UNCHANGED <<activeVideoId, loaded, userPaused, isMuted,
                                elPaused, activeVideo>>
           /\ lastEvent'.op = "k" =>
                 /\ lastEvent'.id = IF active = 0
                                    THEN None ELSE videos[active - 1].id
                 /\ UNCHANGED <<activeVideoId, loaded, userPaused, isMuted,
                                elPaused, activeVideo>>]_vars

\* with no active video the next key has targeted the second slide
WitnessNextFromStart ==
    /\ lastEvent.op = "j"
    /\ activeVideoId = None
    /\ lastEvent.id = AllIds[2]

\* index attributes that denote no position of the list: none at all, a
\* negative number, the length of the list, text, a fraction
InvalidAttrs == {Undefined, "-1", datasetIndex(NumVideos), "abc", "1.5"}

\* entries of targets with such an attribute, fully visible
InvalidEntries ==
    {[index |-> -1, indexAttr |-> a, isIntersecting |-> TRUE,
      intersectionRatio |-> 100] : a \in InvalidAttrs}

\* sequence seq with e inserted after its first k elements
InsertAt(seq, k, e) == SubSeq(seq, 1, k) \o <<e>> \o SubSeq(seq, k + 1, Len(seq))

\* at no place of a batch the observer can deliver does an invalid entry
\* change the candidate
InvalidNeverChosen ==
    \A bad \in InvalidEntries :
        \A e \in Batches[TRUE] \cup Batches[FALSE] :
            \A k \in 0 .. Len(e) :
                ActiveCandidate(InsertAt(e, k, bad)) = ActiveCandidate(e)

EmptyBatchOnlyPauses ==
    [][(lastEvent'.op = "intersection" /\ lastEvent'.id = None) =>
          /\ \A i \in Idx : elPaused'[i]
          /\ UNCHANGED <<elTime, activeVideoId, loaded, userPaused, isMuted,
                         lastActiveIdRef, pendingThen>>]_vars

\* such a batch has left the active item paused at a later position, not
\* marked as paused by the user
WitnessPausedNotRewound ==
    /\ lastEvent.op = "intersection"
    /\ lastEvent.id = None
    /\ activeVideoId # None
    /\ elPaused[findIndex(activeVideoId)]
    /\ elTime[findIndex(activeVideoId)] = MaxTime
    /\ ~userPaused[activeVideoId]
    /\ ~isMuted

\* C30: while item A stays the active item and userPaused[A] is true, no
\* visibility batch, mute key, re-subscription of the observer or re-render
\* starts playback of A's element; only a toggle by the user on A (click or
\* space) resumes it.
UserPauseSticks ==
    [][\A a \in Ids :
          (/\ activeVideoId = a /\ activeVideoId' = a
           /\ userPaused[a]
           /\ elPaused[findIndex(a)] /\ ~elPaused'[findIndex(a)]) =>
              /\ lastEvent'.op \in {"click", "space"}
              /\ lastEvent'.id = a]_vars

\* the active item, paused by the user, has been through a visibility batch
\* of a new observer that selected it again, while unmuted
WitnessStillPaused ==
    /\ lastEvent.op = "intersection"
    /\ lastEvent.id = activeVideoId
    /\ activeVideoId # None
    /\ ~lastEvent.isNew
    /\ userPaused[activeVideoId]
    /\ elPaused[findIndex(activeVideoId)]
    /\ currentSrc(findIndex(activeVideoId))
    /\ ~isMuted

\* ----------------------------------------------------------------- liveness
\* The observer effect lists activeVideoId, userPaused and isMuted among its
\* dependencies: when one of them changes the effect disconnects the observer
\* and creates a new one, and a new observer always delivers an initial report
\* of every target it observes.  That report is the only task the browser owes
\* the page; what a user does, and what an observer that has already reported
\* delivers, depends on the user.

\* The page used from the keyboard: the space and mute keys, the observer, the
\* play promises and the media events.  (A click on a slide runs the handler of
\* the space key on a slide the user picks.)
LiveNext ==
    \/ ObserverNotify
    \/ KeySpace
    \/ KeyMute
    \/ PlayResolved
    \/ PlayRejected
    \/ Tick
    \/ MediaEnded

LiveSpec == Init /\ [][LiveNext]_vars /\ WF_vars(observerFresh /\ ObserverNotify)

\* a visibility batch has just selected item id, which has an adaptive-stream
\* URL and is not user-paused, without invoking play() on it
ActivatedUnplayed(id) ==
    /\ lastEvent.op = "intersection"
    /\ lastEvent.id = id
    /\ lastEvent.played # id
    /\ videos[findIndex(id)].hls_url
    /\ ~userPaused[id]

\* the element of item id has a source and is playing
PlayingWithSource(id) ==
    /\ currentSrc(findIndex(id))
    /\ ~elPaused[findIndex(id)]

\* the last task was user input, a batch in which item id was not
\* sufficiently visible, or a play attempt on item id that was refused
PremiseBroken(id) ==
    \/ lastEvent.op \in {"click", "space", "mute"}
    \/ lastEvent.op = "intersection" /\ lastEvent.id # id
    \/ lastEvent.played = id /\ elPaused[findIndex(id)]

SeekOps == {"arrowleft", "arrowright", "wrapleft", "wrapright"}

InScrubGesture ==
    /\ slide.touchStartRef # <<>>
    /\ slide.scrubbed
    /\ slide.isScrrubbingRef

\* C33: while a gesture that has entered scrub mode is in progress, no
\* guard-delay timeout set by an earlier touch-end clears the scrubbing flag;
\* the flag is cleared only by a click on the video or, with no gesture in
\* progress, by the timeout of the touch-end of a gesture that had scrubbed.
ScrubFlagHeld ==
    [][/\ (InScrubGesture /\ lastEvent'.op = "timeout")
          => slide'.isScrrubbingRef
       /\ (slide.isScrrubbingRef /\ ~slide'.isScrrubbingRef)
          => \/ lastEvent'.op = "slideclick"
             \/ /\ lastEvent'.op = "timeout"
                /\ slide.touchStartRef = <<>>
                /\ Head(slide.timers)]_vars

\* ------------------------------------------------------------------ listing
\* The server component Page (apps/web/app/page.tsx): getVideosFromListing
\* turns the fetched listing into the videos prop of VideoFeed.

\* most children a listing is tried with
MaxPosts == 3

\* post.id: a missing id and the empty string are both falsy
PostIds == {"", "t3_a", "t3_b"}

\* the URLs a post carries
Mp4 == "https://v.redd.it/a/DASH_720.mp4"
M3u8 == "https://v.redd.it/a/HLSPlaylist.m3u8"
Jpg == "https://i.redd.it/a.jpg"

\* child.data: the id, whether it is a crosspost, the fallback_url and the
\* hls_url of its reddit_video and its url; Undefined where a field is absent
Posts ==
    [id : PostIds, crosspost_parent : BOOLEAN, fallback_url : {Undefined, Mp4},
     hls_url : {Undefined, M3u8}, url : {Undefined, Jpg}]

\* the listings Page can fetch: without children, or with up to max of them
Listings(max) ==
    {[hasChildren |-> FALSE, children |-> <<>>]} \cup
    {[hasChildren |-> TRUE, children |-> c] :
        c \in UNION {[1 .. n -> Posts] : n \in 0 .. max}}

\* "only keep obvious video URLs": the endsWith / includes tests on the
\* lower-cased URL
looksLikeVideo ==
    [u \in {Mp4, M3u8, Jpg} |-> u \in {Mp4, M3u8}]

\* extractVideoFromPost(post): <<item>>, or <<>> for null
extractVideoFromPost(post) ==
    LET hls_url == post.hls_url
        src == IF post.fallback_url # Undefined THEN post.fallback_url
               ELSE post.url
    IN  IF post.id = "" \/ (src = Undefined /\ hls_url = Undefined)
        THEN <<>>
        ELSE LET baseSrc == IF hls_url # Undefined THEN hls_url ELSE src
             IN  IF ~looksLikeVideo[baseSrc]
                 THEN <<>>
                 ELSE <<[id |-> post.id,
                         src |-> IF src # Undefined THEN src ELSE hls_url,
                         hls_url |-> hls_url]>>

\* children.filter(no crosspost).map(extractVideoFromPost).filter(not null)
extractAll(children) ==
    LET original(child) == ~child.crosspost_parent
        kept == SelectSeq(children, original)
        mapped == [k \in 1 .. Len(kept) |-> extractVideoFromPost(kept[k])]
        notNull(v) == v # <<>>
        found == SelectSeq(mapped, notNull)
    IN  [k \in 1 .. Len(found) |-> found[k][1]]

\* a loop without seen.add
uniqueByIdNoAdd(found) == found

\* "ensure stable uniqueness by id": the for loop over the items found, with the set
\* seen; after[k] is seen and unique after k iterations
uniqueById(found) ==
    LET after[k \in 0 .. Len(found)] ==
            IF k = 0
            THEN [seen |-> {}, unique |-> <<>>]
            ELSE LET v == found[k]
                 IN  IF v.id \in after[k - 1].seen
                     THEN after[k - 1]
                     ELSE [seen |-> after[k - 1].seen \cup {v.id},
                           unique |-> Append(after[k - 1].unique, v)]
    IN  after[Len(found)].unique

getVideosFromListing(raw) ==
    IF ~raw.hasChildren THEN <<>> ELSE uniqueById(extractAll(raw.children))

\* Page renders: const videos = getVideosFromListing(data)
PageRender ==
    /\ ~page.rendered
    /\ page' = [page EXCEPT !.videos = getVideosFromListing(page.raw),
                            !.rendered = TRUE]
    /\ UNCHANGED <<videos, loaded, userPaused, lastActiveIdRef, activeVideoId,
                   isMuted, elPaused, elTime, pendingThen, observerFresh,
                   activeVideo, slide, playNoSrc, hasInteracted, lastEvent>>

ListingInit ==
    /\ page \in [raw : Listings(MaxPosts), videos : {<<>>}, rendered : {FALSE}]
    /\ videos = [i \in Idx |-> [id |-> AllIds[i + 1], hls_url |-> TRUE]]
    /\ loaded = [id \in Ids |-> FALSE]
    /\ userPaused = [id \in Ids |-> FALSE]
    /\ lastActiveIdRef = None
    /\ activeVideoId = None
    /\ isMuted = TRUE
    /\ elPaused = [i \in Idx |-> TRUE]
    /\ elTime = [i \in Idx |-> 0]
    /\ pendingThen = {}
    /\ observerFresh = TRUE
    /\ activeVideo = NoElement
    /\ slide = NoGesture
    /\ playNoSrc = FALSE
    /\ hasInteracted = FALSE
    /\ lastEvent = Ev("init", None, Cur)

ListingNext == PageRender

ListingSpec == ListingInit /\ [][ListingNext]_vars

\* the positions of the listing whose post yields an item: not a crosspost
\* and extractVideoFromPost does not return null
Yields(i) ==
    /\ ~page.raw.children[i].crosspost_parent
    /\ extractVideoFromPost(page.raw.children[i]) # <<>>

\* the positions of the first post that yields an item of each id
FirstOfId ==
    {i \in 1 .. Len(page.raw.children) :
        /\ Yields(i)
        /\ \A j \in 1 .. (i - 1) :
              Yields(j) => page.raw.children[j].id # page.raw.children[i].id}

\* C34: the list getVideosFromListing returns has no two items with the same
\* id and no item with an empty id; its items are the items of the first
\* post of each id that yields one, in listing order; a listing without
\* children gives the empty list.
UniqueInListingOrder ==
    page.rendered =>
        LET out == page.videos
        IN  /\ \A k, l \in 1 .. Len(out) : out[k].id = out[l].id => k = l
            /\ \A k \in 1 .. Len(out) : out[k].id # ""
            /\ Len(out) = Cardinality(FirstOfId)
            /\ \A k \in 1 .. Len(out) :
                  \E i \in FirstOfId :
                      /\ Cardinality({j \in FirstOfId : j < i}) = k - 1
                      /\ <<out[k]>> = extractVideoFromPost(page.raw.children[i])
            /\ ~page.raw.hasChildren => out = <<>>

\* a rendered listing in which an id occurs twice with different sources,
\* between them a post of another id: the list has the first and the other
WitnessDuplicateDropped ==
    /\ page.rendered
    /\ Len(page.raw.children) = 3
    /\ \A i \in 1 .. 3 : Yields(i)
    /\ page.raw.children[1].id = page.raw.children[3].id
    /\ page.raw.children[1].id # page.raw.children[2].id
    /\ extractVideoFromPost(page.raw.children[1])
          # extractVideoFromPost(page.raw.children[3])
    /\ Len(page.videos) = 2

====
